---- MODULE Spec2Model ----
(***************************************************************************)
(* Approval workflow of the expense management backend:                    *)
(*   services/approvalService.ts  getNextApprover, processApprovalDecision *)
(*   routes/expense.routes.ts     POST /api/expenses, next-approver        *)
(* over the tables of prisma/migrations/20251004033737_init/migration.sql. *)
(* One company is modelled, so every "where companyId" filter selects the  *)
(* whole ApprovalFlowStep table.                                           *)
(***************************************************************************)
EXTENDS Integers, Sequences, FiniteSets, TLC

\* ------------------------------------------------------------------ bounds
MaxStep == 3

\* --------------------------------------------------------------- constants
THRESHOLD_AMOUNT == 500

Users == {"emp", "mgr", "adm", "fin", "dir"}
NoUser == "none"
ExpenseIds == {"e1"}
Procs == {"p1", "p2"}
Amounts == {250, 500, 850}
ApprovalRole == {"Manager", "Finance", "Director"}
ExpenseStatus == {"Pending", "Approved", "Rejected"}
Decisions == {"Approved", "Rejected"}
StepNumbers == 1..MaxStep

VARIABLES
  users,        \* User table: ids of the existing users
  assignment,   \* ManagerAssignment table: set of rows (employeeId, managerId)
  flowSteps,    \* ApprovalFlowStep table (rows of the company)
  expenses,     \* Expense table: id -> row, for the ids created so far
  approvals,    \* ExpenseApproval table: set of rows
  calls,        \* processApprovalDecision invocations in flight, per request
  ret           \* what the last completed call returned or threw

vars == <<users, assignment, flowSteps, expenses, approvals, calls, ret>>
db == <<users, assignment, flowSteps, expenses, approvals>>

\* ------------------------------------------------------------ result shapes
NoInfo == [kind |-> "none", code |-> 0, message |-> "", stepNumber |-> 0,
           approverRole |-> "none", approverId |-> NoUser]

NullInfo == [NoInfo EXCEPT !.kind = "null"]

ErrorInfo(code, message) ==
  [NoInfo EXCEPT !.kind = "error", !.code = code, !.message = message]

ApproverInfo(step, role, approver) ==
  [NoInfo EXCEPT !.kind = "approver", !.stepNumber = step,
                 !.approverRole = role, !.approverId = approver]

NoRet == [op |-> "none", expenseId |-> "none", actor |-> NoUser,
          decision |-> "none", code |-> 0, message |-> "", info |-> NoInfo,
          expenseStatus |-> "none", fastTracked |-> FALSE, pending |-> {}]

\* ---------------------------------------------------------- getNextApprover
ApprovalsOf(expenseId) == {a \in approvals : a.expenseId = expenseId}

RECURSIVE OrderByStepNumber(_)
OrderByStepNumber(rows) ==
  IF rows = {} THEN <<>>
  ELSE LET first == CHOOSE r \in rows : \A q \in rows : r.stepNumber <= q.stepNumber
       IN  <<first>> \o OrderByStepNumber(rows \ {first})

\* Variant: a Rejected record advances the walk like an Approved one.
RECURSIVE WalkApprovalsPastRejected(_, _, _)
WalkApprovalsPastRejected(rows, i, currentStepNumber) ==
  IF i > Len(rows) THEN [rejected |-> FALSE, currentStepNumber |-> currentStepNumber]
  ELSE IF rows[i].status = "Pending"
       THEN [rejected |-> FALSE, currentStepNumber |-> rows[i].stepNumber]
  ELSE WalkApprovalsPastRejected(rows, i + 1, rows[i].stepNumber + 1)

\* Variant: a Rejected record is skipped instead of ending the walk.
RECURSIVE WalkApprovalsIgnoreRejected(_, _, _)
WalkApprovalsIgnoreRejected(rows, i, currentStepNumber) ==
  IF i > Len(rows) THEN [rejected |-> FALSE, currentStepNumber |-> currentStepNumber]
  ELSE IF rows[i].status = "Pending"
       THEN [rejected |-> FALSE, currentStepNumber |-> rows[i].stepNumber]
  ELSE IF rows[i].status = "Rejected"
       THEN WalkApprovalsIgnoreRejected(rows, i + 1, currentStepNumber)
  ELSE WalkApprovalsIgnoreRejected(rows, i + 1, rows[i].stepNumber + 1)

\* Variant: the last record, when Approved, is offered for decision again.
RECURSIVE WalkApprovalsReopenLast(_, _, _)
WalkApprovalsReopenLast(rows, i, currentStepNumber) ==
  IF i > Len(rows) THEN [rejected |-> FALSE, currentStepNumber |-> currentStepNumber]
  ELSE IF rows[i].status = "Pending"
       THEN [rejected |-> FALSE, currentStepNumber |-> rows[i].stepNumber]
  ELSE IF rows[i].status = "Rejected"
       THEN [rejected |-> TRUE, currentStepNumber |-> currentStepNumber]
  ELSE IF i = Len(rows)
       THEN [rejected |-> FALSE, currentStepNumber |-> rows[i].stepNumber]
  ELSE WalkApprovalsReopenLast(rows, i + 1, rows[i].stepNumber + 1)

\* The for-loop over expense.approvals: the step the walk stops at, and
\* whether it returned on a Rejected record.
RECURSIVE WalkApprovals(_, _, _)
WalkApprovals(rows, i, currentStepNumber) ==
  IF i > Len(rows) THEN [rejected |-> FALSE, currentStepNumber |-> currentStepNumber]
  ELSE IF rows[i].status = "Pending"
       THEN [rejected |-> FALSE, currentStepNumber |-> rows[i].stepNumber]
  ELSE IF rows[i].status = "Rejected"
       THEN [rejected |-> TRUE, currentStepNumber |-> currentStepNumber]
  ELSE WalkApprovals(rows, i + 1, rows[i].stepNumber + 1)

\* Variant: the walk starts from step 0.
CurrentStepFromZero(expenseId) ==
  WalkApprovals(OrderByStepNumber(ApprovalsOf(expenseId)), 1, 0)

CurrentStep(expenseId) ==
  WalkApprovals(OrderByStepNumber(ApprovalsOf(expenseId)), 1, 1)

\* Variant: off by one in the completion test.
AllStepsCompleteOffByOne(currentStepNumber) ==
  currentStepNumber > Cardinality(flowSteps) + 1

AllStepsComplete(currentStepNumber) == currentStepNumber > Cardinality(flowSteps)

\* expense.employee.employeeAssignment: the assignment row of the employee,
\* its managerId, NoUser when there is no row
ManagerOf(employeeId) ==
  LET rows == {a \in assignment : a.employeeId = employeeId}
  IN  IF rows = {} THEN NoUser ELSE (CHOOSE a \in rows : TRUE).managerId

\* Variant: a static approver configured on the step is used for any role.
ResolveApproverStaticFirst(expenseId, step) ==
  IF step.staticApproverId # NoUser
  THEN ApproverInfo(step.stepNumber, step.approverRole, step.staticApproverId)
  ELSE IF step.approverRole # "Manager"
       THEN ErrorInfo(400, "No approver found for step")
  ELSE IF ManagerOf(expenses[expenseId].employeeId) = NoUser
       THEN ErrorInfo(400, "Employee has no assigned manager")
       ELSE ApproverInfo(step.stepNumber, step.approverRole,
                         ManagerOf(expenses[expenseId].employeeId))

ResolveApprover(expenseId, step) ==
  IF step.approverRole = "Manager"
  THEN IF ManagerOf(expenses[expenseId].employeeId) = NoUser
       THEN ErrorInfo(400, "Employee has no assigned manager")
       ELSE ApproverInfo(step.stepNumber, step.approverRole,
                         ManagerOf(expenses[expenseId].employeeId))
  ELSE IF step.staticApproverId # NoUser
       THEN ApproverInfo(step.stepNumber, step.approverRole, step.staticApproverId)
       ELSE ErrorInfo(400, "No approver found for step")

\* Variant: the approval records are walked before the flow is looked at.
GetNextApproverWalkFirst(expenseId) ==
  IF expenseId \notin DOMAIN expenses THEN ErrorInfo(404, "Expense not found")
  ELSE LET walk == CurrentStep(expenseId)
           found == {s \in flowSteps : s.stepNumber = walk.currentStepNumber}
       IN  IF walk.rejected THEN NullInfo
           ELSE IF AllStepsComplete(walk.currentStepNumber) THEN NullInfo
           ELSE IF found = {} THEN ErrorInfo(400, "Approval flow step not found")
           ELSE LET info == ResolveApprover(expenseId, CHOOSE s \in found : TRUE)
                IN  IF info.kind = "approver" /\ info.approverId \notin users
                    THEN ErrorInfo(404, "Approver user not found")
                    ELSE info

GetNextApprover(expenseId) ==
  IF expenseId \notin DOMAIN expenses THEN ErrorInfo(404, "Expense not found")
  ELSE IF flowSteps = {} THEN ErrorInfo(400, "No approval flow defined for this company")
  ELSE LET walk == CurrentStep(expenseId)
           found == {s \in flowSteps : s.stepNumber = walk.currentStepNumber}
       IN  IF walk.rejected THEN NullInfo
           ELSE IF AllStepsComplete(walk.currentStepNumber) THEN NullInfo
           ELSE IF found = {} THEN ErrorInfo(400, "Approval flow step not found")
           ELSE LET info == ResolveApprover(expenseId, CHOOSE s \in found : TRUE)
                IN  IF info.kind = "approver" /\ info.approverId \notin users
                    THEN ErrorInfo(404, "Approver user not found")
                    ELSE info

\* --------------------------------------------------- processApprovalDecision
IdleCall == [pc |-> "idle", expenseId |-> "none", approverId |-> NoUser,
             decision |-> "none", expense |-> [status |-> "none", companyCurrencyAmount |-> 0],
             info |-> NoInfo, fast |-> FALSE, allApprovals |-> {}]

\* Variant: an administrator may decide at any step.
IsAuthorizedOrAdmin(info, approverId) ==
  info.approverId = approverId \/ approverId = "adm"

IsAuthorized(info, approverId) == info.approverId = approverId

\* Variant: a plain insert on a table without the unique key.
UpsertAlwaysCreates(rows, expenseId, info, approverId, decision) ==
  rows \cup {[expenseId |-> expenseId, stepNumber |-> info.stepNumber,
              approverId |-> approverId, approverRole |-> info.approverRole,
              status |-> decision, decidedAt |-> TRUE]}

\* prisma.expenseApproval.upsert on the unique key (expenseId, stepNumber)
Upsert(rows, expenseId, info, approverId, decision) ==
  IF \E a \in rows : a.expenseId = expenseId /\ a.stepNumber = info.stepNumber
  THEN {IF a.expenseId = expenseId /\ a.stepNumber = info.stepNumber
        THEN [a EXCEPT !.status = decision, !.decidedAt = TRUE] ELSE a : a \in rows}
  ELSE rows \cup {[expenseId |-> expenseId, stepNumber |-> info.stepNumber,
                   approverId |-> approverId, approverRole |-> info.approverRole,
                   status |-> decision, decidedAt |-> TRUE]}

\* Variant: the threshold amount itself fast-tracks.
ShouldFastTrackAtThreshold(expense, approverRole) ==
  expense.companyCurrencyAmount >= THRESHOLD_AMOUNT \/ approverRole = "Finance"

ShouldFastTrack(expense, approverRole) ==
  expense.companyCurrencyAmount > THRESHOLD_AMOUNT \/ approverRole = "Finance"

\* Variant: the last step is recognised only past the number of steps.
IsLastStepStrict(currentStepNumber, totalSteps) == currentStepNumber > totalSteps

\* Variant: a fast-tracked approval of the step before the last completes
\* the expense.
IsLastStepOffByOne(currentStepNumber, totalSteps) ==
  currentStepNumber + 1 >= totalSteps

\* Variant: a fast-tracked approval completes the expense at any step.
IsLastStepAlways(currentStepNumber, totalSteps) == TRUE

IsLastStep(currentStepNumber, totalSteps) == currentStepNumber >= totalSteps

\* Variant: completion is declared one record before the last step.
AllApprovedExceptLast(allApprovals, steps) ==
  /\ Cardinality(allApprovals) + 1 = Cardinality(steps)
  /\ \A a \in allApprovals : a.status = "Approved"

\* Variant: completion asks for more records than there are steps.
AllApprovedBeyond(allApprovals, steps) ==
  /\ Cardinality(allApprovals) > Cardinality(steps)
  /\ \A a \in allApprovals : a.status = "Approved"

\* Variant: the number of records is not compared with the number of steps.
AllApprovedSoFar(allApprovals, steps) ==
  \A a \in allApprovals : a.status = "Approved"

AllApproved(allApprovals, steps) ==
  /\ Cardinality(allApprovals) = Cardinality(steps)
  /\ \A a \in allApprovals : a.status = "Approved"

\* Variant: the update is keyed on the company, not on the expense.
SetStatusOfCompany(expenseId, status) ==
  [e \in DOMAIN expenses |-> [expenses[e] EXCEPT !.status = status]]

SetStatus(expenseId, status) == [expenses EXCEPT ![expenseId].status = status]

DecisionRet(expenseId, approverId, decision) ==
  [NoRet EXCEPT !.op = "processApprovalDecision", !.expenseId = expenseId,
                !.actor = approverId, !.decision = decision]

Thrown(expenseId, approverId, decision, code, message, info) ==
  [DecisionRet(expenseId, approverId, decision) EXCEPT
     !.code = code, !.message = message, !.info = info]

Returned(expenseId, approverId, decision, info, status, fast) ==
  [DecisionRet(expenseId, approverId, decision) EXCEPT
     !.code = 200, !.message = IF decision = "Rejected" THEN "Expense rejected"
                               ELSE "Approval recorded successfully",
     !.info = info, !.expenseStatus = status, !.fastTracked = fast]

\* Variant: the record is written before the authorization check.
ProcessApprovalDecisionWritesFirst(expenseId, approverId, decision) ==
  /\ \A p \in Procs : calls[p].pc = "idle"
  /\ UNCHANGED <<users, assignment, flowSteps, expenses, calls>>
  /\ IF expenseId \notin DOMAIN expenses
     THEN /\ ret' = Thrown(expenseId, approverId, decision, 404, "Expense not found", NoInfo)
          /\ UNCHANGED approvals
     ELSE LET info == GetNextApprover(expenseId) IN
          IF info.kind # "approver"
          THEN /\ ret' = Thrown(expenseId, approverId, decision, 400,
                                "No pending approval for this expense", info)
               /\ UNCHANGED approvals
          ELSE /\ approvals' = Upsert(approvals, expenseId, info, approverId, decision)
               /\ ret' = IF IsAuthorized(info, approverId)
                         THEN Returned(expenseId, approverId, decision, info,
                                       expenses[expenseId].status, FALSE)
                         ELSE Thrown(expenseId, approverId, decision, 403,
                                     "You are not authorized to approve this expense at this step",
                                     info)

\* One whole call, run to completion with no other request in between.
ProcessApprovalDecision(expenseId, approverId, decision) ==
  /\ \A p \in Procs : calls[p].pc = "idle"
  /\ UNCHANGED <<users, assignment, flowSteps, calls>>
  /\ IF expenseId \notin DOMAIN expenses
     THEN /\ ret' = Thrown(expenseId, approverId, decision, 404, "Expense not found", NoInfo)
          /\ UNCHANGED <<expenses, approvals>>
     ELSE LET expense == expenses[expenseId]
              info == GetNextApprover(expenseId)
          IN
          IF info.kind = "error"
          THEN /\ ret' = Thrown(expenseId, approverId, decision, info.code, info.message, info)
               /\ UNCHANGED <<expenses, approvals>>
          ELSE IF info.kind = "null"
          THEN /\ ret' = Thrown(expenseId, approverId, decision, 400,
                                "No pending approval for this expense", info)
               /\ UNCHANGED <<expenses, approvals>>
          ELSE IF ~IsAuthorized(info, approverId)
          THEN /\ ret' = Thrown(expenseId, approverId, decision, 403,
                                "You are not authorized to approve this expense at this step", info)
               /\ UNCHANGED <<expenses, approvals>>
          ELSE LET rows == Upsert(approvals, expenseId, info, approverId, decision)
                   fast == ShouldFastTrack(expense, info.approverRole)
                   done == IF fast
                           THEN IsLastStep(info.stepNumber, Cardinality(flowSteps))
                           ELSE AllApproved({a \in rows : a.expenseId = expenseId}, flowSteps)
               IN
               /\ approvals' = rows
               /\ IF decision = "Rejected"
                  THEN /\ expenses' = SetStatus(expenseId, "Rejected")
                       /\ ret' = Returned(expenseId, approverId, decision, info, "Rejected", FALSE)
                  ELSE IF done
                  THEN /\ expenses' = SetStatus(expenseId, "Approved")
                       /\ ret' = Returned(expenseId, approverId, decision, info, "Approved", fast)
                  ELSE /\ UNCHANGED expenses
                       /\ ret' = Returned(expenseId, approverId, decision, info, expense.status, fast)

\* --------------------------------------- processApprovalDecision, step by step
\* The same function with each awaited database call as its own step, so that
\* two requests interleave between any two of their queries.
SetCall(p, c) == [calls EXCEPT ![p] = c]

Finish(p) == SetCall(p, IdleCall)

\* line 120: prisma.expense.findUnique, and the 404 when it finds nothing
FindExpense(p, expenseId, approverId, decision) ==
  /\ calls[p].pc = "idle"
  /\ UNCHANGED db
  /\ IF expenseId \notin DOMAIN expenses
     THEN /\ ret' = Thrown(expenseId, approverId, decision, 404, "Expense not found", NoInfo)
          /\ UNCHANGED calls
     ELSE /\ calls' = SetCall(p, [IdleCall EXCEPT
                        !.pc = "getNextApprover", !.expenseId = expenseId,
                        !.approverId = approverId, !.decision = decision,
                        !.expense = [status |-> expenses[expenseId].status,
                                     companyCurrencyAmount |->
                                       expenses[expenseId].companyCurrencyAmount]])
          /\ UNCHANGED ret

\* lines 134-146: getNextApprover reads the tables as they are now, then the
\* 'no pending approval' and authorization checks
CheckApprover(p) ==
  LET c == calls[p]
      info == GetNextApprover(c.expenseId)
  IN
  /\ c.pc = "getNextApprover"
  /\ UNCHANGED db
  /\ IF info.kind = "error"
     THEN /\ ret' = Thrown(c.expenseId, c.approverId, c.decision, info.code, info.message, info)
          /\ calls' = Finish(p)
     ELSE IF info.kind = "null"
     THEN /\ ret' = Thrown(c.expenseId, c.approverId, c.decision, 400,
                            "No pending approval for this expense", info)
          /\ calls' = Finish(p)
     ELSE IF ~IsAuthorized(info, c.approverId)
     THEN /\ ret' = Thrown(c.expenseId, c.approverId, c.decision, 403,
                            "You are not authorized to approve this expense at this step", info)
          /\ calls' = Finish(p)
     ELSE /\ calls' = SetCall(p, [c EXCEPT !.pc = "upsert", !.info = info])
          /\ UNCHANGED ret

\* lines 149-170, and the branch taken after them (lines 173, 189-195)
UpsertApproval(p) ==
  LET c == calls[p]
      fast == ShouldFastTrack(c.expense, c.info.approverRole)
  IN
  /\ c.pc = "upsert"
  /\ approvals' = Upsert(approvals, c.expenseId, c.info, c.approverId, c.decision)
  /\ calls' = SetCall(p, [c EXCEPT
                !.pc = IF c.decision = "Rejected" THEN "updateRejected"
                       ELSE IF fast THEN "count" ELSE "findApprovals",
                !.fast = fast])
  /\ UNCHANGED <<users, assignment, flowSteps, expenses, ret>>

\* lines 174-183
UpdateRejected(p) ==
  LET c == calls[p] IN
  /\ c.pc = "updateRejected"
  /\ expenses' = SetStatus(c.expenseId, "Rejected")
  /\ ret' = Returned(c.expenseId, c.approverId, c.decision, c.info, "Rejected", FALSE)
  /\ calls' = Finish(p)
  /\ UNCHANGED <<users, assignment, flowSteps, approvals>>

\* lines 197-201: approvalFlowStep.count, and the return when it is not the last step
CountSteps(p) ==
  LET c == calls[p] IN
  /\ c.pc = "count"
  /\ UNCHANGED db
  /\ IF IsLastStep(c.info.stepNumber, Cardinality(flowSteps))
     THEN /\ calls' = SetCall(p, [c EXCEPT !.pc = "updateApproved"])
          /\ UNCHANGED ret
     ELSE /\ ret' = Returned(c.expenseId, c.approverId, c.decision, c.info,
                              c.expense.status, c.fast)
          /\ calls' = Finish(p)

\* lines 211-222: expenseApproval.findMany, approvalFlowStep.findMany, allApproved
FindApprovals(p) ==
  LET c == calls[p] IN
  /\ c.pc = "findApprovals"
  /\ UNCHANGED db
  /\ IF AllApproved(ApprovalsOf(c.expenseId), flowSteps)
     THEN /\ calls' = SetCall(p, [c EXCEPT !.pc = "updateApproved"])
          /\ UNCHANGED ret
     ELSE /\ ret' = Returned(c.expenseId, c.approverId, c.decision, c.info,
                              c.expense.status, c.fast)
          /\ calls' = Finish(p)

\* lines 203-207 and 223-227, then the return of lines 231-236
UpdateApproved(p) ==
  LET c == calls[p] IN
  /\ c.pc = "updateApproved"
  /\ expenses' = SetStatus(c.expenseId, "Approved")
  /\ ret' = Returned(c.expenseId, c.approverId, c.decision, c.info, "Approved", c.fast)
  /\ calls' = Finish(p)
  /\ UNCHANGED <<users, assignment, flowSteps, approvals>>

\* --------------------------------------------------------------- the routes
\* Variant: submission opens the first step with a Pending record.
SubmitExpenseOpensStep(expenseId, employeeId, amount) ==
  /\ expenseId \notin DOMAIN expenses
  /\ employeeId \in users
  /\ expenses' = [e \in DOMAIN expenses \cup {expenseId} |->
                    IF e = expenseId
                    THEN [employeeId |-> employeeId, companyCurrencyAmount |-> amount,
                          status |-> "Pending"]
                    ELSE expenses[e]]
  /\ approvals' = approvals \cup
                    {[expenseId |-> expenseId, stepNumber |-> 1, approverId |-> NoUser,
                      approverRole |-> "Manager", status |-> "Pending",
                      decidedAt |-> FALSE]}
  /\ UNCHANGED <<users, assignment, flowSteps, calls>>
  /\ ret' = [NoRet EXCEPT
               !.op = "submitExpense", !.expenseId = expenseId, !.code = 201,
               !.message = IF GetNextApprover(expenseId)'.kind = "error"
                           THEN "Expense created but approval flow not configured"
                           ELSE "",
               !.info = IF GetNextApprover(expenseId)'.kind = "error"
                        THEN NullInfo ELSE GetNextApprover(expenseId)']

\* POST /api/expenses
SubmitExpense(expenseId, employeeId, amount) ==
  /\ expenseId \notin DOMAIN expenses
  /\ employeeId \in users
  /\ expenses' = [e \in DOMAIN expenses \cup {expenseId} |->
                    IF e = expenseId
                    THEN [employeeId |-> employeeId, companyCurrencyAmount |-> amount,
                          status |-> "Pending"]
                    ELSE expenses[e]]
  /\ UNCHANGED <<users, assignment, flowSteps, approvals, calls>>
  \* lines 91-104: the first approver of the new expense, null with a
  \* warning when getNextApprover throws
  /\ ret' = [NoRet EXCEPT
               !.op = "submitExpense", !.expenseId = expenseId, !.code = 201,
               !.message = IF GetNextApprover(expenseId)'.kind = "error"
                           THEN "Expense created but approval flow not configured"
                           ELSE "",
               !.info = IF GetNextApprover(expenseId)'.kind = "error"
                        THEN NullInfo ELSE GetNextApprover(expenseId)']

\* Variant: the resolver marks the step it answers with a Pending record.
NextApproverRouteMarksPending(expenseId) ==
  /\ ret' = [NoRet EXCEPT !.op = "getNextApprover", !.expenseId = expenseId,
                          !.info = GetNextApprover(expenseId),
                          !.code = IF GetNextApprover(expenseId).kind = "error"
                                   THEN GetNextApprover(expenseId).code ELSE 200]
  /\ approvals' =
       IF GetNextApprover(expenseId).kind = "approver"
       THEN Upsert(approvals, expenseId, GetNextApprover(expenseId),
                   GetNextApprover(expenseId).approverId, "Pending")
       ELSE approvals
  /\ UNCHANGED <<users, assignment, flowSteps, expenses, calls>>

\* GET /api/expenses/:id/next-approver
NextApproverRoute(expenseId) ==
  /\ ret' = [NoRet EXCEPT !.op = "getNextApprover", !.expenseId = expenseId,
                          !.info = GetNextApprover(expenseId),
                          !.code = IF GetNextApprover(expenseId).kind = "error"
                                   THEN GetNextApprover(expenseId).code ELSE 200]
  /\ UNCHANGED <<db, calls>>

\* POST /api/approval-flow
CreateFlowStep(stepNumber, approverRole, staticApproverId) ==
  /\ UNCHANGED <<users, assignment, expenses, approvals, calls>>
  /\ IF approverRole \in {"Finance", "Director"} /\ staticApproverId = NoUser
     THEN /\ ret' = [NoRet EXCEPT !.op = "createFlowStep", !.code = 400,
                       !.message = "Finance and Director roles require a staticApproverId"]
          /\ UNCHANGED flowSteps
     ELSE IF \E s \in flowSteps : s.stepNumber = stepNumber
     THEN /\ ret' = [NoRet EXCEPT !.op = "createFlowStep", !.code = 409,
                       !.message = "Unique constraint violation"]
          /\ UNCHANGED flowSteps
     ELSE IF staticApproverId # NoUser /\ staticApproverId \notin users
     THEN /\ ret' = [NoRet EXCEPT !.op = "createFlowStep", !.code = 400,
                       !.message = "Database error"]
          /\ UNCHANGED flowSteps
     ELSE /\ flowSteps' = flowSteps \cup
                 {[stepNumber |-> stepNumber, approverRole |-> approverRole,
                   staticApproverId |-> staticApproverId]}
          /\ ret' = [NoRet EXCEPT !.op = "createFlowStep", !.code = 201]

\* POST /api/approval-flow/seed-default: deleteMany, then the three creates
\* in one transaction, which fails as a whole on an unknown approver id
SeedDefault(financeApproverId, directorApproverId) ==
  /\ UNCHANGED <<users, assignment, expenses, approvals, calls>>
  /\ IF financeApproverId = NoUser \/ directorApproverId = NoUser
     THEN /\ ret' = [NoRet EXCEPT !.op = "seedDefault", !.code = 400,
                       !.message = "companyId, financeApproverId, and directorApproverId are required"]
          /\ UNCHANGED flowSteps
     ELSE IF financeApproverId \notin users \/ directorApproverId \notin users
     THEN /\ flowSteps' = {}
          /\ ret' = [NoRet EXCEPT !.op = "seedDefault", !.code = 400,
                       !.message = "Database error"]
     ELSE /\ flowSteps' =
               { [stepNumber |-> 1, approverRole |-> "Manager", staticApproverId |-> NoUser],
                 [stepNumber |-> 2, approverRole |-> "Finance",
                  staticApproverId |-> financeApproverId],
                 [stepNumber |-> 3, approverRole |-> "Director",
                  staticApproverId |-> directorApproverId] }
          /\ ret' = [NoRet EXCEPT !.op = "seedDefault", !.code = 201,
                       !.message = "Default 3-step approval flow created"]

\* GET /api/approval-flow/pending: the rows of ExpenseApproval of this
\* approver whose status is Pending
PendingApprovals(approverId) ==
  {a \in approvals : a.approverId = approverId /\ a.status = "Pending"}

PendingRoute(approverId) ==
  /\ ret' = [NoRet EXCEPT !.op = "pendingApprovals", !.actor = approverId, !.code = 200,
               !.pending = {a.expenseId : a \in PendingApprovals(approverId)}]
  /\ UNCHANGED <<db, calls>>

\* The role column of the seeded users.
UserRoleOf(u) ==
  IF u \in {"adm", "dir"} THEN "Admin"
  ELSE IF u \in {"mgr", "fin"} THEN "Manager"
  ELSE "Employee"

\* Variant: the table has no unique key on employeeId.
AssignManagerNoUniqueKey(employeeId, managerId) ==
  /\ UNCHANGED <<users, flowSteps, expenses, approvals, calls>>
  /\ IF employeeId \notin users \/ managerId \notin users
     THEN /\ ret' = [NoRet EXCEPT !.op = "assignManager", !.actor = employeeId,
                       !.code = 404, !.message = "Employee or Manager not found"]
          /\ UNCHANGED assignment
     ELSE IF UserRoleOf(managerId) \notin {"Manager", "Admin"}
     THEN /\ ret' = [NoRet EXCEPT !.op = "assignManager", !.actor = employeeId,
                       !.code = 400, !.message = "Manager must have Manager or Admin role"]
          /\ UNCHANGED assignment
     ELSE /\ assignment' = assignment \cup
                 {[employeeId |-> employeeId, managerId |-> managerId]}
          /\ ret' = [NoRet EXCEPT !.op = "assignManager", !.actor = employeeId,
                       !.code = 201]

\* POST /api/users/manager-assignments
AssignManager(employeeId, managerId) ==
  /\ UNCHANGED <<users, flowSteps, expenses, approvals, calls>>
  /\ IF employeeId \notin users \/ managerId \notin users
     THEN /\ ret' = [NoRet EXCEPT !.op = "assignManager", !.actor = employeeId,
                       !.code = 404, !.message = "Employee or Manager not found"]
          /\ UNCHANGED assignment
     ELSE IF UserRoleOf(managerId) \notin {"Manager", "Admin"}
     THEN /\ ret' = [NoRet EXCEPT !.op = "assignManager", !.actor = employeeId,
                       !.code = 400, !.message = "Manager must have Manager or Admin role"]
          /\ UNCHANGED assignment
     ELSE IF \E a \in assignment : a.employeeId = employeeId
     THEN /\ ret' = [NoRet EXCEPT !.op = "assignManager", !.actor = employeeId,
                       !.code = 409, !.message = "Unique constraint violation"]
          /\ UNCHANGED assignment
     ELSE /\ assignment' = assignment \cup
                 {[employeeId |-> employeeId, managerId |-> managerId]}
          /\ ret' = [NoRet EXCEPT !.op = "assignManager", !.actor = employeeId,
                       !.code = 201]

\* PUT /api/users/:id with managerId in the body: NoUser stands for '' or
\* null.  The deleteMany and the create are separate queries, so a create
\* that fails on an unknown manager id leaves the employee without a row.
UpdateUser(id, managerId) ==
  /\ UNCHANGED <<users, flowSteps, expenses, approvals, calls>>
  /\ IF id \notin users
     THEN /\ ret' = [NoRet EXCEPT !.op = "updateUser", !.actor = id, !.code = 404,
                       !.message = "User not found"]
          /\ UNCHANGED assignment
     ELSE IF managerId = NoUser
     THEN /\ assignment' = {a \in assignment : a.employeeId # id}
          /\ ret' = [NoRet EXCEPT !.op = "updateUser", !.actor = id, !.code = 200]
     ELSE IF \E a \in assignment : a.employeeId = id /\ a.managerId = managerId
     THEN /\ UNCHANGED assignment
          /\ ret' = [NoRet EXCEPT !.op = "updateUser", !.actor = id, !.code = 200]
     ELSE IF managerId \notin users
     THEN /\ assignment' = {a \in assignment : a.employeeId # id}
          /\ ret' = [NoRet EXCEPT !.op = "updateUser", !.actor = id, !.code = 400,
                       !.message = "Database error"]
     ELSE /\ assignment' = {a \in assignment : a.employeeId # id} \cup
                             {[employeeId |-> id, managerId |-> managerId]}
          /\ ret' = [NoRet EXCEPT !.op = "updateUser", !.actor = id, !.code = 200]

\* DELETE /api/users/:id: the assignments of the user go first, then the user
\* row, whose delete is refused while an approval record names the user
\* (approverId ON DELETE RESTRICT) and otherwise cascades to the user's
\* expenses and their records and empties staticApproverId (SET NULL).
DeleteUser(id) ==
  /\ UNCHANGED calls
  /\ IF id \notin users
     THEN /\ ret' = [NoRet EXCEPT !.op = "deleteUser", !.actor = id, !.code = 404,
                       !.message = "User not found"]
          /\ UNCHANGED db
     ELSE /\ assignment' = {a \in assignment : a.employeeId # id /\ a.managerId # id}
          /\ IF \E a \in approvals : a.approverId = id
             THEN /\ ret' = [NoRet EXCEPT !.op = "deleteUser", !.actor = id, !.code = 400,
                               !.message = "Database error"]
                  /\ UNCHANGED <<users, flowSteps, expenses, approvals>>
             ELSE /\ users' = users \ {id}
                  /\ flowSteps' = {IF s.staticApproverId = id
                                   THEN [s EXCEPT !.staticApproverId = NoUser]
                                   ELSE s : s \in flowSteps}
                  /\ expenses' = [e \in {x \in DOMAIN expenses : expenses[x].employeeId # id}
                                    |-> expenses[e]]
                  /\ approvals' = {a \in approvals : expenses[a.expenseId].employeeId # id}
                  /\ ret' = [NoRet EXCEPT !.op = "deleteUser", !.actor = id, !.code = 200,
                               !.message = "User deleted successfully"]

\* ------------------------------------------------------------ initial states
Submitters == {"emp"}

\* What a row of ApprovalFlowStep can hold at one step number: the rows
\* POST /api/approval-flow accepts, and a Director row whose static approver
\* was deleted (staticApproverId ON DELETE SET NULL).
StepChoices(n) ==
  { [stepNumber |-> n, approverRole |-> "Manager", staticApproverId |-> NoUser],
    [stepNumber |-> n, approverRole |-> "Finance", staticApproverId |-> "fin"],
    [stepNumber |-> n, approverRole |-> "Director", staticApproverId |-> "dir"],
    [stepNumber |-> n, approverRole |-> "Director", staticApproverId |-> NoUser] }

\* Every flow with at most one row per step number (the unique index on
\* companyId, stepNumber), gaps included.
FlowConfigurations ==
  { rows \in SUBSET (UNION {StepChoices(n) : n \in StepNumbers}) :
      \A r, q \in rows : r.stepNumber = q.stepNumber => r = q }

\* The ManagerAssignment table of the submitter: no row, or the seeded one.
ManagerAssignments ==
  { {}, {[employeeId |-> "emp", managerId |-> "mgr"]} }

Init ==
  /\ users = Users
  /\ assignment \in ManagerAssignments
  /\ flowSteps \in FlowConfigurations
  /\ expenses = <<>>
  /\ approvals = {}
  /\ calls = [p \in Procs |-> IdleCall]
  /\ ret = NoRet

Next ==
  \/ \E e \in ExpenseIds, u \in Submitters, amt \in Amounts : SubmitExpense(e, u, amt)
  \/ \E e \in ExpenseIds, u \in Users, d \in Decisions : ProcessApprovalDecision(e, u, d)
  \/ \E e \in ExpenseIds : NextApproverRoute(e)

Spec == Init /\ [][Next]_vars

\* ------------------------------------------------ concurrent requests
\* The seeded flow (Manager, Finance, Director, ...) cut to its first n steps,
\* kept one step shorter than the sequential flows.
DefaultStep(n) ==
  IF n = 1 THEN [stepNumber |-> n, approverRole |-> "Manager", staticApproverId |-> NoUser]
  ELSE IF n = 2 THEN [stepNumber |-> n, approverRole |-> "Finance", staticApproverId |-> "fin"]
  ELSE [stepNumber |-> n, approverRole |-> "Director", staticApproverId |-> "dir"]

DefaultFlows == { {DefaultStep(k) : k \in 1..n} : n \in 1..(MaxStep - 1) }

InitConc ==
  /\ users = Users
  /\ assignment = {[employeeId |-> "emp", managerId |-> "mgr"]}
  /\ flowSteps \in DefaultFlows
  /\ expenses = <<>>
  /\ approvals = {}
  /\ calls = [p \in Procs |-> IdleCall]
  /\ ret = NoRet

NextConc ==
  \/ \E e \in ExpenseIds, u \in Submitters, amt \in Amounts : SubmitExpense(e, u, amt)
  \/ \E p \in Procs, e \in ExpenseIds, u \in Users, d \in Decisions : FindExpense(p, e, u, d)
  \/ \E p \in Procs : CheckApprover(p)
  \/ \E p \in Procs : UpsertApproval(p)
  \/ \E p \in Procs : UpdateRejected(p)
  \/ \E p \in Procs : CountSteps(p)
  \/ \E p \in Procs : FindApprovals(p)
  \/ \E p \in Procs : UpdateApproved(p)
  \/ \E e \in ExpenseIds : NextApproverRoute(e)

SpecConc == InitConc /\ [][NextConc]_vars

\* ------------------------------------------------ flow configuration
\* An id that is no row of the User table.
UnknownUser == "ghost"

\* The request bodies sent to POST /api/approval-flow: role and static
\* approver.
FlowStepInputs ==
  { <<"Manager", NoUser>>, <<"Finance", "fin">>,
    <<"Director", NoUser>>, <<"Finance", UnknownUser>> }

\* The amount of the expense submitted while the flow is being edited: below
\* the threshold, so that only Finance steps fast-track.
FlowAmounts == {250}

\* The request bodies sent to POST /api/approval-flow/seed-default.
SeedInputs == { <<"fin", "dir">>, <<NoUser, "dir">>, <<UnknownUser, "dir">> }

Approvers == {"mgr", "fin", "dir"}

\* A company that has no flow step yet.
InitFlow ==
  /\ users = Users
  /\ assignment = {[employeeId |-> "emp", managerId |-> "mgr"]}
  /\ flowSteps = {}
  /\ expenses = <<>>
  /\ approvals = {}
  /\ calls = [p \in Procs |-> IdleCall]
  /\ ret = NoRet

NextFlow ==
  \/ \E n \in StepNumbers, in \in FlowStepInputs : CreateFlowStep(n, in[1], in[2])
  \/ \E in \in SeedInputs : SeedDefault(in[1], in[2])
  \/ \E e \in ExpenseIds, u \in Submitters, amt \in FlowAmounts : SubmitExpense(e, u, amt)
  \/ \E e \in ExpenseIds, u \in Approvers, d \in Decisions : ProcessApprovalDecision(e, u, d)
  \/ \E e \in ExpenseIds : NextApproverRoute(e)
  \/ \E u \in Approvers : PendingRoute(u)

SpecFlow == InitFlow /\ [][NextFlow]_vars

\* ------------------------------------------------ users and managers
\* Flows whose Manager step carries a static approver of its own.
UserFlows ==
  { { [stepNumber |-> 1, approverRole |-> "Manager", staticApproverId |-> "adm"],
      [stepNumber |-> 2, approverRole |-> "Finance", staticApproverId |-> "fin"] },
    { [stepNumber |-> 1, approverRole |-> "Finance", staticApproverId |-> "fin"],
      [stepNumber |-> 2, approverRole |-> "Manager", staticApproverId |-> NoUser] } }

\* The request bodies sent to POST /api/users/manager-assignments.
AssignInputs ==
  {"emp", "mgr"} \X {"mgr", "adm", "emp", UnknownUser}

\* The managerId sent to PUT /api/users/:id of the submitter.
UpdateInputs == {NoUser, "mgr", "adm", UnknownUser}

\* The users DELETE /api/users/:id is called for.
DeleteInputs == {"mgr", "adm", "fin"}

\* Users exist, nobody has a manager yet.
InitUsers ==
  /\ users = Users
  /\ assignment = {}
  /\ flowSteps \in UserFlows
  /\ expenses = <<>>
  /\ approvals = {}
  /\ calls = [p \in Procs |-> IdleCall]
  /\ ret = NoRet

NextUsers ==
  \/ \E in \in AssignInputs : AssignManager(in[1], in[2])
  \/ \E id \in Submitters, m \in UpdateInputs : UpdateUser(id, m)
  \/ \E id \in DeleteInputs : DeleteUser(id)
  \/ \E e \in ExpenseIds, u \in Submitters, amt \in FlowAmounts : SubmitExpense(e, u, amt)
  \/ \E e \in ExpenseIds, u \in DeleteInputs, d \in Decisions : ProcessApprovalDecision(e, u, d)
  \/ \E e \in ExpenseIds : NextApproverRoute(e)

SpecUsers == InitUsers /\ [][NextUsers]_vars

\* ------------------------------------------------ approvers who keep deciding
\* The flows numbered 1..N in which every step other than a Manager step has
\* its static approver.
LiveFlows ==
  { f \in FlowConfigurations :
      /\ f # {}
      /\ {s.stepNumber : s \in f} = 1..Cardinality(f)
      /\ \A s \in f : s.approverRole # "Manager" => s.staticApproverId # NoUser }

InitLive ==
  /\ users = Users
  /\ assignment = {[employeeId |-> "emp", managerId |-> "mgr"]}
  /\ flowSteps \in LiveFlows
  /\ expenses = <<>>
  /\ approvals = {}
  /\ calls = [p \in Procs |-> IdleCall]
  /\ ret = NoRet

\* The approver getNextApprover returns for the expense submits a decision.
ApproverDecides(expenseId) ==
  \E d \in Decisions :
    /\ GetNextApprover(expenseId).kind = "approver"
    /\ ProcessApprovalDecision(expenseId, GetNextApprover(expenseId).approverId, d)

\* The sequential system in which the awaited approver always eventually
\* decides.
NextLive ==
  \/ \E e \in ExpenseIds, u \in Submitters, amt \in Amounts : SubmitExpense(e, u, amt)
  \/ \E e \in ExpenseIds, u \in Approvers, d \in Decisions : ProcessApprovalDecision(e, u, d)
  \/ \E e \in ExpenseIds : NextApproverRoute(e)

\* ApproverDecides(e) can be taken exactly when getNextApprover returns an
\* approver for e, and it always changes the records.
Awaited(expenseId) ==
  expenseId \in DOMAIN expenses /\ GetNextApprover(expenseId).kind = "approver"

\* Weak fairness of ApproverDecides, WF_vars(ApproverDecides(e)), with the
\* enabling condition of the action written out.
ApproverEventuallyDecides(expenseId) ==
  []<>(~Awaited(expenseId)) \/ []<><<ApproverDecides(expenseId)>>_vars

SpecLive ==
  /\ InitLive
  /\ [][NextLive]_vars
  /\ \A e \in ExpenseIds : ApproverEventuallyDecides(e)

\* ------------------------------------------------ two expenses
\* Two expenses in one company, as in the seed (here both of the employee
\* whose manager is assigned), decided one call at a time under the seeded
\* flow cut to its first n steps.
FrameExpenseIds == {"e1", "e2"}

FrameAmounts == {250, 850}

FrameFlows == { {DefaultStep(k) : k \in 1..n} : n \in 1..MaxStep }

InitFrame ==
  /\ users = Users
  /\ assignment = {[employeeId |-> "emp", managerId |-> "mgr"]}
  /\ flowSteps \in FrameFlows
  /\ expenses = <<>>
  /\ approvals = {}
  /\ calls = [p \in Procs |-> IdleCall]
  /\ ret = NoRet

NextFrame ==
  \/ \E e \in FrameExpenseIds, amt \in FrameAmounts : SubmitExpense(e, "emp", amt)
  \/ \E e \in FrameExpenseIds, u \in Approvers, d \in Decisions :
       ProcessApprovalDecision(e, u, d)

SpecFrame == InitFrame /\ [][NextFrame]_vars

\* ------------------------------------------------------------------ claims
ConfiguredStepNumbers == {s.stepNumber : s \in flowSteps}

NoPendingMessage == "No pending approval for this expense"

\* C1: with a fixed flow and calls run one at a time, an expense starts in
\* Pending, and once its status is Approved or Rejected no call changes it:
\* the only status changes are Pending -> Approved and Pending -> Rejected.
C1_TerminalStatusIsFinal ==
  [][\A e \in ExpenseIds :
       /\ (e \notin DOMAIN expenses /\ e \in DOMAIN expenses')
            => expenses'[e].status = "Pending"
       /\ e \in DOMAIN expenses
            => /\ e \in DOMAIN expenses'
               /\ expenses'[e].status \in ExpenseStatus
               /\ expenses[e].status # "Pending"
                    => expenses'[e].status = expenses[e].status]_vars

\* A decision was attempted on an expense that is already Approved.
C1_Witness ==
  /\ ret.op = "processApprovalDecision"
  /\ ret.expenseId \in DOMAIN expenses
  /\ expenses[ret.expenseId].status = "Approved"
  /\ ret.decision = "Rejected"
  /\ ret.code = 400
  /\ ret.message = NoPendingMessage

\* C2: an expense whose status is Approved has an Approved record for every
\* configured step and no Rejected record.
C2_ApprovedHasAllSteps ==
  \A e \in DOMAIN expenses :
    expenses[e].status = "Approved"
      => /\ \A n \in ConfiguredStepNumbers :
              \E a \in ApprovalsOf(e) : a.stepNumber = n /\ a.status = "Approved"
         /\ \A a \in ApprovalsOf(e) : a.status # "Rejected"

\* C3: with calls run one at a time, a record exists at step k > 1 only if the
\* record at step k-1 exists and is Approved, and whenever getNextApprover
\* returns step k every record of the expense below k is Approved.
C3_NextOnlyAfterApproved ==
  /\ \A a \in approvals :
       a.stepNumber > 1
         => \E b \in ApprovalsOf(a.expenseId) :
              b.stepNumber = a.stepNumber - 1 /\ b.status = "Approved"
  /\ \A e \in DOMAIN expenses :
       GetNextApprover(e).kind = "approver"
         => \A a \in ApprovalsOf(e) :
              a.stepNumber < GetNextApprover(e).stepNumber => a.status = "Approved"

\* getNextApprover was called and answered with a step above the first one.
C3_Witness ==
  /\ ret.op = "getNextApprover"
  /\ ret.info.kind = "approver"
  /\ ret.info.stepNumber >= 2
  /\ \A n \in 1..(ret.info.stepNumber - 1) :
       \E a \in ApprovalsOf(ret.expenseId) : a.stepNumber = n

\* C4: a call whose approverId is not the approver getNextApprover resolves
\* for the expense fails with 403 and writes nothing, whoever the caller is.
C4_StrictIdentity ==
  [][( /\ ret'.op = "processApprovalDecision"
       /\ GetNextApprover(ret'.expenseId).kind = "approver"
       /\ GetNextApprover(ret'.expenseId).approverId # ret'.actor )
     => /\ ret'.code = 403
        /\ approvals' = approvals
        /\ expenses' = expenses]_vars

\* The approver of another step of the same flow was turned away.
C4_Witness ==
  /\ ret.op = "processApprovalDecision"
  /\ ret.code = 403
  /\ ret.info.approverId # ret.actor
  /\ \E s \in flowSteps :
       s.stepNumber # ret.info.stepNumber /\ s.staticApproverId = ret.actor

\* C5: a successful Rejected decision leaves the expense Rejected, and from
\* then on every call on that expense fails with 'no pending approval' (the
\* resolver keeps answering null for it).
C5_RejectionIsFinal ==
  /\ [](\A e \in DOMAIN expenses :
          ( /\ ret.op = "processApprovalDecision" /\ ret.expenseId = e
            /\ ret.code = 200 /\ ret.decision = "Rejected" )
          => /\ expenses[e].status = "Rejected"
             /\ GetNextApprover(e).kind = "null")
  /\ [][\A e \in DOMAIN expenses :
          (expenses[e].status = "Rejected" /\ GetNextApprover(e).kind = "null")
            => (GetNextApprover(e).kind = "null")']_vars

\* C6: two interleaved calls on one expense never both pass the check for the
\* same step and both write that step's record.
AfterUpsert == {"updateRejected", "count", "findApprovals", "updateApproved"}

C6_NoDoubleWrite ==
  \A p, q \in Procs :
    ( /\ p # q
      /\ calls[p].pc \in AfterUpsert
      /\ calls[q].pc \in AfterUpsert
      /\ calls[p].expenseId = calls[q].expenseId )
    => calls[p].info.stepNumber # calls[q].info.stepNumber

\* C7: under any interleaving a Rejected expense is never set to Approved and
\* an Approved one never set to Rejected.
C7_NeverReopened ==
  [][\A e \in DOMAIN expenses :
       /\ expenses[e].status = "Rejected" => expenses'[e].status # "Approved"
       /\ expenses[e].status = "Approved" => expenses'[e].status # "Rejected"]_vars

\* The approver a step resolves to, read off the tables.
StepApprover(e, s) ==
  IF s.approverRole = "Manager" THEN ManagerOf(expenses[e].employeeId)
  ELSE s.staticApproverId

\* C8 as stated: with N >= 1 configured steps and no record, getNextApprover
\* returns step 1 with the approver of step 1.
C8_FirstStepAlways ==
  \A e \in DOMAIN expenses :
    (flowSteps # {} /\ ApprovalsOf(e) = {})
      => /\ GetNextApprover(e).kind = "approver"
         /\ GetNextApprover(e).stepNumber = 1

\* C8: with N >= 1 configured steps and no record, getNextApprover returns
\* step 1 with its approver when step 1 is configured and its approver
\* resolves, and fails with an error otherwise; it never returns null or
\* another step.
C8_FirstStepWhenResolvable ==
  \A e \in DOMAIN expenses :
    (flowSteps # {} /\ ApprovalsOf(e) = {})
      => IF \E s \in flowSteps : s.stepNumber = 1 /\ StepApprover(e, s) # NoUser
         THEN \E s \in flowSteps :
                /\ s.stepNumber = 1
                /\ GetNextApprover(e) =
                     ApproverInfo(1, s.approverRole, StepApprover(e, s))
         ELSE GetNextApprover(e).kind = "error" /\ GetNextApprover(e).code = 400

\* getNextApprover answered step 1 for an expense without records.
C8_Witness ==
  /\ ret.op = "getNextApprover"
  /\ ret.expenseId \in DOMAIN expenses
  /\ ApprovalsOf(ret.expenseId) = {}
  /\ Cardinality(flowSteps) >= 2
  /\ ret.info.kind = "approver"
  /\ ret.info.stepNumber = 1

FullyApproved(e) ==
  /\ ApprovalsOf(e) # {}
  /\ Cardinality(ApprovalsOf(e)) = Cardinality(flowSteps)
  /\ {a.stepNumber : a \in ApprovalsOf(e)} = ConfiguredStepNumbers
  /\ \A a \in ApprovalsOf(e) : a.status = "Approved"

C10_AllApprovedMeansNull ==
  \A e \in DOMAIN expenses : FullyApproved(e) => GetNextApprover(e).kind = "null"

\* getNextApprover answered null for a fully approved expense of a flow with
\* several steps.
C10_Witness ==
  /\ ret.op = "getNextApprover"
  /\ ret.expenseId \in DOMAIN expenses
  /\ FullyApproved(ret.expenseId)
  /\ Cardinality(flowSteps) >= 2
  /\ ret.info.kind = "null"

\* C11: getNextApprover is read-only and idempotent: a call changes no
\* expense, approval record, flow step or manager assignment, it answers what
\* the resolver yields on the unchanged tables, and a second call for the same
\* expense right after the first returns the same result.
C11_ReadOnlyIdempotent ==
  [][ret'.op = "getNextApprover"
       => /\ db' = db
          /\ calls' = calls
          /\ ret'.info = GetNextApprover(ret'.expenseId)
          /\ (ret.op = "getNextApprover" /\ ret.expenseId = ret'.expenseId)
               => ret'.info = ret.info]_vars

\* getNextApprover answered the second step of an expense that is under way.
C11_Witness ==
  /\ ret.op = "getNextApprover"
  /\ ret.expenseId \in DOMAIN expenses
  /\ expenses[ret.expenseId].status = "Pending"
  /\ ret.info.kind = "approver"
  /\ ret.info.stepNumber = 2
  /\ ret.info = GetNextApprover(ret.expenseId)
  /\ \E a \in ApprovalsOf(ret.expenseId) : a.stepNumber = 1 /\ a.status = "Approved"

\* C12: for every recorded Approved decision the returned fastTracked flag is
\* true exactly when the amount is above 500 or the step just decided is a
\* Finance step: 500 itself at a Manager or Director step gives false, a
\* Finance step gives true for any amount.
C12_FastTrackedFlag ==
  \A e \in DOMAIN expenses :
    ( /\ ret.op = "processApprovalDecision" /\ ret.expenseId = e
      /\ ret.code = 200 /\ ret.decision = "Approved" )
    => \E s \in flowSteps :
         /\ s.stepNumber = ret.info.stepNumber
         /\ \E a \in ApprovalsOf(e) :
              a.stepNumber = s.stepNumber /\ a.status = "Approved"
         /\ ret.fastTracked =
              (expenses[e].companyCurrencyAmount > 500 \/ s.approverRole = "Finance")
         /\ (expenses[e].companyCurrencyAmount = 500 /\ s.approverRole # "Finance")
              => ~ret.fastTracked
         /\ s.approverRole = "Finance" => ret.fastTracked

\* An approval of exactly 500 at a Director step came back not fast-tracked.
C12_Witness ==
  /\ ret.op = "processApprovalDecision"
  /\ ret.code = 200
  /\ ret.decision = "Approved"
  /\ ret.info.approverRole = "Director"
  /\ ret.expenseId \in DOMAIN expenses
  /\ expenses[ret.expenseId].companyCurrencyAmount = 500
  /\ ~ret.fastTracked

\* A fast-tracked approval was just recorded at a step of e below its last
\* configured step.
FastTrackedBelowLast(e) ==
  /\ ret.op = "processApprovalDecision" /\ ret.expenseId = e
  /\ ret.code = 200 /\ ret.decision = "Approved" /\ ret.fastTracked
  /\ \E s \in flowSteps : s.stepNumber > ret.info.stepNumber

\* C13 as stated: after a fast-tracked approval at a step k that is not the
\* last configured step, the expense is still Pending, no record exists above
\* k, and getNextApprover returns step k+1.
C13_FastTrackNextStep ==
  \A e \in DOMAIN expenses :
    FastTrackedBelowLast(e)
      => /\ expenses[e].status = "Pending"
         /\ \A a \in ApprovalsOf(e) : a.stepNumber <= ret.info.stepNumber
         /\ GetNextApprover(e).kind = "approver"
         /\ GetNextApprover(e).stepNumber = ret.info.stepNumber + 1

\* C13: fast-track never skips a step: after a fast-tracked approval at a
\* step k that is not the last configured step, the expense is still Pending,
\* no record exists above k, and getNextApprover resolves step k+1: it returns
\* step k+1 with its approver when that step is configured and its approver
\* resolves, and fails with an error otherwise; it never returns null or a
\* step above k+1.
C13_FastTrackNoSkip ==
  \A e \in DOMAIN expenses :
    FastTrackedBelowLast(e)
      => /\ expenses[e].status = "Pending"
         /\ ret.expenseStatus = "Pending"
         /\ \A a \in ApprovalsOf(e) : a.stepNumber <= ret.info.stepNumber
         /\ IF \E s \in flowSteps : /\ s.stepNumber = ret.info.stepNumber + 1
                                    /\ StepApprover(e, s) # NoUser
            THEN \E s \in flowSteps :
                   /\ s.stepNumber = ret.info.stepNumber + 1
                   /\ GetNextApprover(e) =
                        ApproverInfo(s.stepNumber, s.approverRole, StepApprover(e, s))
            ELSE GetNextApprover(e).kind = "error" /\ GetNextApprover(e).code = 400

\* A fast-tracked approval at step 2 of three left the expense waiting for
\* the approver of step 3.
C13_Witness ==
  /\ ret.op = "processApprovalDecision"
  /\ ret.code = 200
  /\ ret.decision = "Approved"
  /\ ret.fastTracked
  /\ ret.info.stepNumber = 2
  /\ Cardinality(flowSteps) = 3
  /\ expenses[ret.expenseId].status = "Pending"
  /\ GetNextApprover(ret.expenseId).kind = "approver"
  /\ GetNextApprover(ret.expenseId).stepNumber = 3

\* The configured step numbers are exactly 1..N.
DenseFlow == ConfiguredStepNumbers = 1..Cardinality(flowSteps)

\* C14: with a dense flow 1..N and decisions processed one at a time, the
\* status stays Pending after the approval of every step k < N and becomes
\* Approved in the very call that records the approval of step N, whether or
\* not fast-track fired.
C14_ApprovedAtLastStepOnly ==
  \A e \in DOMAIN expenses :
    ( /\ DenseFlow
      /\ ret.op = "processApprovalDecision" /\ ret.expenseId = e
      /\ ret.code = 200 /\ ret.decision = "Approved" )
    => /\ \E a \in ApprovalsOf(e) :
            a.stepNumber = ret.info.stepNumber /\ a.status = "Approved"
       /\ ret.info.stepNumber < Cardinality(flowSteps)
            => expenses[e].status = "Pending" /\ ret.expenseStatus = "Pending"
       /\ ret.info.stepNumber = Cardinality(flowSteps)
            => expenses[e].status = "Approved" /\ ret.expenseStatus = "Approved"
       /\ ret.info.stepNumber <= Cardinality(flowSteps)

\* The approval of step 3 of 3, not fast-tracked, set the status to Approved.
C14_Witness ==
  /\ DenseFlow
  /\ Cardinality(flowSteps) = 3
  /\ ret.op = "processApprovalDecision"
  /\ ret.code = 200
  /\ ret.decision = "Approved"
  /\ ~ret.fastTracked
  /\ ret.info.stepNumber = 3
  /\ expenses[ret.expenseId].status = "Approved"

\* The actor of the call just made had decided the latest recorded step of
\* the expense, and is the approver of no step above it.
SecondDecision(a) ==
  /\ a \in approvals
  /\ ret'.op = "processApprovalDecision"
  /\ ret'.expenseId = a.expenseId
  /\ ret'.actor = a.approverId
  /\ \A b \in ApprovalsOf(a.expenseId) : b.stepNumber <= a.stepNumber
  /\ \A s \in flowSteps :
       s.stepNumber > a.stepNumber => StepApprover(a.expenseId, s) # a.approverId

C16_OneRecordPerStep ==
  \A a, b \in approvals :
    (a.expenseId = b.expenseId /\ a.stepNumber = b.stepNumber) => a = b

\* Two requests have both written the record of the same step, and the step
\* holds one record.
C16_Witness ==
  \E p, q \in Procs :
    /\ p # q
    /\ calls[p].pc \in AfterUpsert
    /\ calls[q].pc \in AfterUpsert
    /\ calls[p].expenseId = calls[q].expenseId
    /\ calls[p].info.stepNumber = calls[q].info.stepNumber
    /\ calls[p].decision # calls[q].decision
    /\ Cardinality({a \in ApprovalsOf(calls[p].expenseId) :
                      a.stepNumber = calls[p].info.stepNumber}) = 1

\* C17: whenever processApprovalDecision fails (expense not found, resolver
\* error, nothing pending, actor not authorized) the store is unchanged: no
\* approval record is created or modified and no expense status changes.
C17_FailureWritesNothing ==
  [][(ret'.op = "processApprovalDecision" /\ ret'.code # 200)
       => /\ ret'.code \in {400, 403, 404}
          /\ approvals' = approvals
          /\ expenses' = expenses
          /\ db' = db]_vars

\* A call failed on the resolver's error while the expense was under way.
C17_Witness ==
  /\ ret.op = "processApprovalDecision"
  /\ ret.code = 400
  /\ ret.info.kind = "error"
  /\ ret.expenseId \in DOMAIN expenses
  /\ expenses[ret.expenseId].status = "Pending"
  /\ \E a \in ApprovalsOf(ret.expenseId) : a.status = "Approved"

\* C18: after any sequence of flow-configuration operations (creating a step
\* with any positive step number, seeding the default flow) the step numbers
\* of the company are 1..N with no gaps.
C18_DenseStepNumbers ==
  \A s \in flowSteps : \A n \in 1..s.stepNumber : n \in ConfiguredStepNumbers

\* C19: the pending-approvals listing of approver A holds exactly the
\* expenses awaiting A's decision: the Pending expenses for which
\* getNextApprover returns approver A.
C19_PendingListing ==
  ret.op = "pendingApprovals"
    => ret.pending =
         {e \in DOMAIN expenses :
            /\ expenses[e].status = "Pending"
            /\ GetNextApprover(e).kind = "approver"
            /\ GetNextApprover(e).approverId = ret.actor}

\* C20: changing the flow after an expense reached a terminal status does not
\* re-open it: whatever flow steps are created or seeded and whatever
\* decisions are submitted, an Approved or Rejected expense keeps its status
\* and getNextApprover keeps returning null for it.
C20_TerminalSurvivesFlowChange ==
  [][\A e \in DOMAIN expenses :
       expenses[e].status \in {"Approved", "Rejected"}
         => /\ expenses'[e].status = expenses[e].status
            /\ GetNextApprover(e).kind = "null" => (GetNextApprover(e).kind = "null")']_vars

\* C21: for every expense of a company with zero configured flow steps
\* getNextApprover fails with the configuration error, whatever approval
\* records the expense has; it returns neither null nor an approver.
C21_NoFlowIsConfigurationError ==
  \A e \in DOMAIN expenses :
    flowSteps = {}
      => /\ GetNextApprover(e).kind = "error"
         /\ GetNextApprover(e).code = 400
         /\ GetNextApprover(e).message = "No approval flow defined for this company"

\* getNextApprover failed for an expense that holds a record, its company
\* left without steps.
C21_Witness ==
  /\ flowSteps = {}
  /\ ret.op = "getNextApprover"
  /\ ret.expenseId \in DOMAIN expenses
  /\ ApprovalsOf(ret.expenseId) # {}
  /\ ret.info.kind = "error"
  /\ ret.code = 400

\* C22: at a Manager step getNextApprover resolves to the manager assignment
\* of the submitter as it is at the time of the call, whatever static
\* approver the step carries, and fails with 'no assigned manager' when the
\* submitter has no assignment; at any other step it uses the static approver
\* of the step and fails with the configuration error when there is none.
C22_RoleResolution ==
  \A e \in DOMAIN expenses : \A s \in flowSteps :
    ( /\ \A a \in ApprovalsOf(e) : a.status = "Approved"
      /\ s.stepNumber = Cardinality(ApprovalsOf(e)) + 1 )
    => IF s.approverRole = "Manager"
       THEN IF \E a \in assignment : a.employeeId = expenses[e].employeeId
            THEN \E a \in assignment :
                   /\ a.employeeId = expenses[e].employeeId
                   /\ GetNextApprover(e) =
                        ApproverInfo(s.stepNumber, "Manager", a.managerId)
            ELSE GetNextApprover(e) = ErrorInfo(400, "Employee has no assigned manager")
       ELSE IF s.staticApproverId # NoUser
            THEN GetNextApprover(e) =
                   ApproverInfo(s.stepNumber, s.approverRole, s.staticApproverId)
            ELSE GetNextApprover(e) = ErrorInfo(400, "No approver found for step")

\* getNextApprover answered the submitter's manager at a Manager step whose
\* static approver is somebody else.
C22_Witness ==
  /\ ret.op = "getNextApprover"
  /\ ret.info.kind = "approver"
  /\ ret.info.approverRole = "Manager"
  /\ \E s \in flowSteps :
       /\ s.stepNumber = ret.info.stepNumber
       /\ s.staticApproverId \in users
       /\ s.staticApproverId # ret.info.approverId
  /\ \E a \in assignment :
       a.employeeId = expenses[ret.expenseId].employeeId
         /\ a.managerId = ret.info.approverId

\* C23: after any sequence of manager-assignment operations (POST
\* manager-assignments, PUT user with managerId set, changed or cleared,
\* DELETE user) every employee has at most one manager assignment.
C23_OneManagerPerEmployee ==
  \A a, b \in assignment : a.employeeId = b.employeeId => a = b

\* A second assignment for an employee who has a manager was refused.
C23_Witness ==
  /\ ret.op = "assignManager"
  /\ ret.code = 409
  /\ Cardinality({a \in assignment : a.employeeId = ret.actor}) = 1

\* C24: with a fixed dense flow 1..N, a manager assigned to the submitter and
\* a static approver on every other step, if the approver getNextApprover
\* returns always eventually decides, every submitted expense eventually
\* reaches Approved or Rejected, and it never holds more than N decisions.
C24_EventuallyDecided ==
  \A e \in ExpenseIds :
    /\ [](e \in DOMAIN expenses
            => Cardinality(ApprovalsOf(e)) <= Cardinality(flowSteps))
    /\ (e \in DOMAIN expenses)
         ~> (e \in DOMAIN expenses /\ expenses[e].status \in {"Approved", "Rejected"})

\* An expense was approved by the approvers of all three steps of its flow.
C24_Witness ==
  /\ Cardinality(flowSteps) = 3
  /\ \E e \in DOMAIN expenses :
       /\ expenses[e].status = "Approved"
       /\ Cardinality(ApprovalsOf(e)) = 3
       /\ \A s \in flowSteps :
            \E a \in ApprovalsOf(e) :
              a.stepNumber = s.stepNumber /\ a.approverId = StepApprover(e, s)

\* C25: with a fixed dense flow and decisions processed one at a time the
\* resolver and the stored status agree: getNextApprover returns null for an
\* expense exactly when its status is Approved or Rejected, and a step or an
\* error exactly when its status is Pending.
C25_ResolverAgreesWithStatus ==
  \A e \in DOMAIN expenses :
    DenseFlow
      => /\ GetNextApprover(e).kind = "null"
              <=> expenses[e].status \in {"Approved", "Rejected"}
         /\ GetNextApprover(e).kind \in {"approver", "error"}
              <=> expenses[e].status = "Pending"

\* getNextApprover failed on the second step of a dense flow while the
\* expense was Pending.
C25_Witness ==
  /\ DenseFlow
  /\ ret.op = "getNextApprover"
  /\ ret.info.kind = "error"
  /\ ret.expenseId \in DOMAIN expenses
  /\ expenses[ret.expenseId].status = "Pending"
  /\ Cardinality(ApprovalsOf(ret.expenseId)) = 1

\* C26: with a fixed dense flow and decisions processed one at a time, for
\* every Approved decision by the resolved approver the fast-track test
\* 'the step just recorded >= the number of configured steps' holds exactly
\* when the normal test 'as many records as configured steps, all Approved'
\* holds, so both branches decide the same status.
C26_BranchesAgree ==
  \A e \in DOMAIN expenses :
    LET info == GetNextApprover(e)
    IN  (DenseFlow /\ info.kind = "approver")
          => LET rows == Upsert(approvals, e, info, info.approverId, "Approved")
                 allApprovals == {a \in rows : a.expenseId = e}
             IN  IsLastStep(info.stepNumber, Cardinality(flowSteps))
                   <=> AllApproved(allApprovals, flowSteps)

\* An Approved decision that was not fast-tracked completed a dense flow of
\* more than one step, after an earlier one that was fast-tracked.
C26_Witness ==
  /\ DenseFlow
  /\ ret.op = "processApprovalDecision"
  /\ ret.code = 200
  /\ ret.decision = "Approved"
  /\ ~ret.fastTracked
  /\ ret.expenseStatus = "Approved"
  /\ ret.info.stepNumber = Cardinality(flowSteps)
  /\ Cardinality(flowSteps) > 1
  /\ \E a \in ApprovalsOf(ret.expenseId) : a.approverRole = "Finance"

\* C27: the expenseStatus returned by a successful processApprovalDecision
\* equals the stored status of the expense at the moment the call returns,
\* also when another decision on the same expense was processed between the
\* call's read of the expense and its return.
C27_ReturnedStatusIsStored ==
  [][ \A p \in Procs :
        ( /\ calls[p].pc \in {"updateRejected", "count", "findApprovals", "updateApproved"}
          /\ calls'[p].pc = "idle"
          /\ ret'.op = "processApprovalDecision"
          /\ ret'.code = 200 )
        => ret'.expenseStatus = expenses'[ret'.expenseId].status ]_vars

\* C28: no approval record ever has status Pending: every record is Approved
\* or Rejected and carries a decision timestamp, and, decisions being
\* processed one at a time, the step getNextApprover resolves never has a
\* record yet, so the walk never meets a Pending record and the upsert never
\* takes its update branch.
C28_NoPendingRecord ==
  /\ \A a \in approvals : a.status \in {"Approved", "Rejected"} /\ a.decidedAt
  /\ \A e \in DOMAIN expenses :
       GetNextApprover(e).kind = "approver"
         => ~\E a \in approvals :
               a.expenseId = e /\ a.stepNumber = GetNextApprover(e).stepNumber

\* A decision was recorded on an expense that has an Approved and a Rejected
\* record, each one created by its own call.
C28_Witness ==
  /\ ret.op = "processApprovalDecision"
  /\ ret.code = 200
  /\ \E a, b \in ApprovalsOf(ret.expenseId) :
       /\ a.stepNumber = 1 /\ a.status = "Approved" /\ a.decidedAt
       /\ b.stepNumber = 2 /\ b.status = "Rejected" /\ b.decidedAt
  /\ Cardinality(approvals) = 2

\* C29: a successful processApprovalDecision on expense e writes only e's
\* approval record at the resolved step and e's status: the rows, statuses
\* and approval records of every other expense, the other records and fields
\* of e, all flow steps, all manager assignments and all users are unchanged.
C29_WritesOnlyItsExpense ==
  [][ (ret'.op = "processApprovalDecision" /\ ret'.code = 200)
        => LET e == ret'.expenseId
               k == ret'.info.stepNumber
           IN  /\ flowSteps' = flowSteps
               /\ assignment' = assignment
               /\ users' = users
               /\ DOMAIN expenses' = DOMAIN expenses
               /\ \A o \in DOMAIN expenses \ {e} :
                    /\ expenses'[o] = expenses[o]
                    /\ ApprovalsOf(o)' = ApprovalsOf(o)
               /\ expenses'[e] = [expenses[e] EXCEPT !.status = expenses'[e].status]
               /\ {a \in approvals' : a.expenseId = e /\ a.stepNumber # k}
                    = {a \in approvals : a.expenseId = e /\ a.stepNumber # k}
               /\ \E a \in approvals' : a.expenseId = e /\ a.stepNumber = k ]_vars

\* A decision completed one expense while the other one, with a record of
\* its own, is still Pending.
C29_Witness ==
  /\ ret.op = "processApprovalDecision"
  /\ ret.code = 200
  /\ ret.expenseStatus = "Approved"
  /\ \E o \in DOMAIN expenses \ {ret.expenseId} :
       /\ expenses[o].status = "Pending"
       /\ ApprovalsOf(o) # {}

====
